---- MODULE Spec2Model ----
(***************************************************************************)
(* Booking and credit ledger of the fitness class booking backend.         *)
(*                                                                         *)
(* The tables of the data store (sessions, bookings, student_plans,        *)
(* plan_purchases, credit_transactions) are the state.  A request handler  *)
(* is a process: every `await supabase...` of a handler is one atomic step *)
(* of that process, and steps of different requests interleave freely.     *)
(***************************************************************************)
EXTENDS Integers, Sequences, FiniteSets, TLC

(* ------------------------------ bounds --------------------------------- *)
\* requests accepted in a run; each runs in a slot of its own, so up to
\* MaxRequests handlers are in flight together
MaxRequests == 2
\* storage failures (a failed insert / update / rpc) injected in a run
MaxFailures == 1

\* students and sessions rows present in the store
Students == {1, 2}
Sessions == {1, 2}
Procs == 1..MaxRequests

(* ------------------------------ time ----------------------------------- *)
\* Instants (minutes) the wall clock passes through: start, the
\* cancellation deadline and the booking cutoff of the seeded sessions.
Clock == <<0, 120, 235>>
MinutesPerDay == 1440
\* new Date().toISOString().split('T')[0]: the calendar day of an instant
DateOf(t) == t \div MinutesPerDay

(* --------------------------- seeded rows ------------------------------- *)
\* A sessions row as scheduling creates it (README "Booking Rules": bookings
\* close 5 minutes before the start, cancellations 2 hours before it).
BookingCutoffMinutes == 5
CancellationCutoffHours == 2
SeedSession ==
  [session_datetime |-> 240, capacity |-> 1,
   booking_cutoff_minutes |-> BookingCutoffMinutes,
   cancellation_cutoff_hours |-> CancellationCutoffHours]
SessionStatuses == {"scheduled", "cancelled"}
\* what the store holds when the run starts: no booking yet, or the booking
\* of student 1 on session 1 left by an earlier POST /api/bookings
SeedHistories == {"fresh", "booked"}

\* plans rows, as the product webhook upserts them (extractPlanData)
UnlimitedCredits == 999
PlanCatalog ==
  [pack |-> [credits |-> 1, duration_days |-> 30, is_unlimited |-> FALSE],
   trial |-> [credits |-> 1, duration_days |-> 7, is_unlimited |-> FALSE],
   unlimited |-> [credits |-> UnlimitedCredits, duration_days |-> 30,
                  is_unlimited |-> TRUE]]

\* plan_purchases rows of the orders processed before the run starts; each
\* seeding is one history of confirmed orders (purchased_at: the instant the
\* order was created and its webhook handled).  In the third one student 1
\* holds two grants that end on different days and student 2's grant ended
\* the day before the run starts.
SeedPurchases ==
  { << [shopify_order_id |-> 1, student_id |-> 1, plan_id |-> "pack", quantity |-> 1,
        purchased_at |-> 0],
       [shopify_order_id |-> 2, student_id |-> 2, plan_id |-> "pack", quantity |-> 1,
        purchased_at |-> 0] >>,
    << [shopify_order_id |-> 1, student_id |-> 1, plan_id |-> "pack", quantity |-> 2,
        purchased_at |-> 0],
       [shopify_order_id |-> 2, student_id |-> 2, plan_id |-> "unlimited", quantity |-> 1,
        purchased_at |-> 0] >>,
    << [shopify_order_id |-> 1, student_id |-> 1, plan_id |-> "pack", quantity |-> 1,
        purchased_at |-> 0],
       [shopify_order_id |-> 2, student_id |-> 1, plan_id |-> "trial", quantity |-> 1,
        purchased_at |-> 0],
       [shopify_order_id |-> 3, student_id |-> 2, plan_id |-> "pack", quantity |-> 1,
        purchased_at |-> 0 - 31 * MinutesPerDay] >> }

(* ------------------------------ state ---------------------------------- *)
VARIABLES
  tick,                 \* position of the wall clock in Clock
  sessions,             \* sessions table: session id -> row
  bookings,             \* bookings table: booking id (position) -> row
  student_plans,        \* student_plans table: grant id (position) -> row
  plan_purchases,       \* plan_purchases table: purchase id (position) -> row
  credit_transactions,  \* credit_transactions table (the ledger), append only
  procs,                \* request slot -> the handler running in it
  nfail                 \* storage failures injected so far

vars == <<tick, sessions, bookings, student_plans, plan_purchases,
          credit_transactions, procs, nfail>>

now == Clock[tick]

(* --------------------------- row helpers ------------------------------- *)
\* sessions.spots_left, the column the routes read
spots_left(session) == session.capacity - session.spots_taken

\* new Date(`${session_date}T${session_time}`) - booking_cutoff_minutes * 60 * 1000
cutoffTime(session) == session.session_datetime - session.booking_cutoff_minutes

\* sessionDateTime - cancellation_cutoff_hours * 60 * 60 * 1000
cancellationDeadline(session) ==
  session.session_datetime - session.cancellation_cutoff_hours * 60

ActiveBookingIds(bs, m, s) ==
  {b \in DOMAIN bs : /\ bs[b].student_id = m
                     /\ bs[b].session_id = s
                     /\ bs[b].status = "active"}

\* .eq(...).single(): data only when exactly one row matches
single(rows) == IF Cardinality(rows) = 1 THEN rows ELSE {}

createStudentPlanBadCredits(purchase, purchase_id, plan, at) ==
  [student_id |-> purchase.student_id,
   plan_id |-> purchase.plan_id,
   purchase_id |-> purchase_id,
   start_date |-> DateOf(at),
   end_date |-> DateOf(at + plan.duration_days * MinutesPerDay),
   initial_credits |-> plan.credits * purchase.quantity,
   remaining_credits |-> plan.credits,
   is_unlimited |-> plan.is_unlimited,
   status |-> "active"]

\* createStudentPlan(purchase, student, plan): the student_plans row inserted
createStudentPlan(purchase, purchase_id, plan, at) ==
  [student_id |-> purchase.student_id,
   plan_id |-> purchase.plan_id,
   purchase_id |-> purchase_id,
   start_date |-> DateOf(at),
   end_date |-> DateOf(at + plan.duration_days * MinutesPerDay),
   initial_credits |-> plan.credits * purchase.quantity,
   remaining_credits |-> plan.credits * purchase.quantity,
   is_unlimited |-> plan.is_unlimited,
   status |-> "active"]

(* ------------------- data store side (not in the routes) ---------------- *)
\* No handler writes sessions.spots_taken or student_plans.remaining_credits:
\* the store keeps them.  A spot is taken when an active bookings row is
\* inserted and released when a row leaves active; the capacity guard is the
\* handlers' own check of spots_left, made before the insert.
incrementSpotsTaken(ss, s) ==
  [ss EXCEPT ![s].spots_taken = @ + 1]

releaseKeepsSpot(ss, s) == ss

\* Capacity Tracker: release, floor-clamped at 0
release(ss, s) ==
  [ss EXCEPT ![s].spots_taken = IF @ > 0 THEN @ - 1 ELSE 0]

\* Ledger append: balance_before / balance_after from the grant's balance
LedgerEntry(plans, g, type, amount, ref, reftype) ==
  LET before == plans[g].remaining_credits
      after == IF plans[g].is_unlimited THEN before
               ELSE IF type = "debit" THEN before - amount ELSE before + amount
  IN [student_plan_id |-> g, transaction_type |-> type, amount |-> amount,
      balance_before |-> before, balance_after |-> after,
      reference_id |-> ref, reference_type |-> reftype]

(* ------------------------------ Init ----------------------------------- *)
\* the bookings row a reserve inserts (columns not given take their defaults)
BookingRow(m, s, g) ==
  [student_id |-> m, session_id |-> s, student_plan_id |-> g,
   status |-> "active", cancelled_at |-> -1, cancellation_reason |-> "",
   credit_refunded |-> FALSE]

\* Ledger append: the grant's cached balance follows the entry
ApplyEntry(plans, e) ==
  [plans EXCEPT ![e.student_plan_id].remaining_credits = e.balance_after]

\* A request slot.  overlap: the slots whose requests were in flight together
\* with this one; start_left: the session's spots_left when the request
\* arrived; seen_left / seen_credits: the spots_left and the
\* remaining_credits the handler read.
IdleProc ==
  [kind |-> "idle", pc |-> "idle", overlap |-> {},
   student |-> 0, session_id |-> 0, booking_id |-> 0, plan_id |-> 0,
   order_id |-> 0, start_left |-> 0, seen_left |-> 0, seen_credits |-> 0,
   pending |-> <<>>, todo |-> {}, topic |-> "", result |-> "none"]

SeedSessions(st) ==
  [s \in Sessions |->
     [session_datetime |-> SeedSession.session_datetime,
      capacity |-> SeedSession.capacity,
      spots_taken |-> 0,
      booking_cutoff_minutes |-> SeedSession.booking_cutoff_minutes,
      cancellation_cutoff_hours |-> SeedSession.cancellation_cutoff_hours,
      status |-> IF s = 2 THEN st ELSE "scheduled"]]

SeedPlans(seed) ==
  [i \in DOMAIN seed |->
     createStudentPlan(seed[i], i, PlanCatalog[seed[i].plan_id], seed[i].purchased_at)]

Init ==
  /\ tick = 1
  /\ procs = [p \in Procs |-> IdleProc]
  /\ nfail = 0
  /\ \E st \in SessionStatuses, seed \in SeedPurchases, h \in SeedHistories :
       /\ plan_purchases = seed
       /\ IF h = "fresh"
          THEN /\ sessions = SeedSessions(st)
               /\ bookings = <<>>
               /\ student_plans = SeedPlans(seed)
               /\ credit_transactions = <<>>
          ELSE LET e == LedgerEntry(SeedPlans(seed), 1, "debit", 1, 1, "booking")
               IN /\ sessions = incrementSpotsTaken(SeedSessions(st), 1)
                  /\ bookings = <<BookingRow(1, 1, 1)>>
                  /\ student_plans = ApplyEntry(SeedPlans(seed), e)
                  /\ credit_transactions = <<e>>

(* --------------------------- process helpers --------------------------- *)
InFlight(q) == procs[q].pc \notin {"idle", "done"}

\* A slot takes its request; slots are taken in order.
CanStart(p) ==
  /\ procs[p].pc = "idle"
  /\ \A q \in Procs : q < p => procs[q].pc # "idle"

\* The slots after request r is accepted into slot p (r records which
\* requests it overlaps, and they record r).
Accept(p, r) ==
  [q \in Procs |->
     IF q = p THEN [r EXCEPT !.overlap = {o \in Procs : InFlight(o)}]
     ELSE IF InFlight(q) THEN [procs[q] EXCEPT !.overlap = @ \cup {p}]
     ELSE procs[q]]

Finish(p, res) == [procs EXCEPT ![p].pc = "done", ![p].result = res]
Goto(p, pc) == [procs EXCEPT ![p].pc = pc]

(* ---------- data store operations as the handlers invoke them ---------- *)
\* rpc('create_credit_transaction', ...): the ledger entry and the grant's
\* balance are written together
create_credit_transaction(g, type, amount, ref, reftype) ==
  LET e == LedgerEntry(student_plans, g, type, amount, ref, reftype)
  IN /\ credit_transactions' = Append(credit_transactions, e)
     /\ student_plans' = ApplyEntry(student_plans, e)

\* from('bookings').insert({student_id, session_id, student_plan_id, status: 'active'})
InsertBooking(m, s, g) ==
  /\ bookings' = Append(bookings, BookingRow(m, s, g))
  /\ sessions' = incrementSpotsTaken(sessions, s)

\* from('bookings').update({status: 'cancelled', cancelled_at, cancellation_reason,
\* [credit_refunded]}).eq('id', b): refunded is "keep" when the column is not written
UpdateBookingCancelled(b, reason, refunded) ==
  /\ bookings' = [bookings EXCEPT ![b] =
       [@ EXCEPT !.status = "cancelled", !.cancelled_at = now,
                 !.cancellation_reason = reason,
                 !.credit_refunded = IF refunded = "keep" THEN @ ELSE refunded = "true"]]
  /\ sessions' = IF bookings[b].status = "active"
                 THEN release(sessions, bookings[b].session_id)
                 ELSE sessions

Fail == /\ nfail < MaxFailures
        /\ nfail' = nfail + 1

(* ------------------ POST /api/bookings (routes/bookings.js) ------------- *)
\* existing active booking check
ReserveStart(p, m, s) ==
  /\ CanStart(p)
  /\ LET r == [IdleProc EXCEPT !.kind = "reserve", !.student = m, !.session_id = s,
                                !.start_left = spots_left(sessions[s])]
     IN IF single(ActiveBookingIds(bookings, m, s)) # {}
        THEN procs' = Accept(p, [r EXCEPT !.pc = "done", !.result = "AlreadyBooked"])
        ELSE procs' = Accept(p, [r EXCEPT !.pc = "r_session"])
  /\ UNCHANGED <<tick, sessions, bookings, student_plans, plan_purchases,
                 credit_transactions, nfail>>

ReserveSessionCheckFullByOne(session, t) ==
  IF session.status # "scheduled" THEN "SessionNotAvailable"
  ELSE IF spots_left(session) < 0 THEN "SessionFull"
  ELSE IF t >= cutoffTime(session) THEN "BookingClosed"
  ELSE "ok"

ReserveSessionCheckLateByOne(session, t) ==
  IF session.status # "scheduled" THEN "SessionNotAvailable"
  ELSE IF spots_left(session) <= 0 THEN "SessionFull"
  ELSE IF t > cutoffTime(session) THEN "BookingClosed"
  ELSE "ok"

\* the guard the route applies to the session row it read
ReserveSessionCheck(session, t) ==
  IF session.status # "scheduled" THEN "SessionNotAvailable"
  ELSE IF spots_left(session) <= 0 THEN "SessionFull"
  ELSE IF t >= cutoffTime(session) THEN "BookingClosed"
  ELSE "ok"

\* session read, status / capacity / cutoff checks
ReserveSession(p) ==
  /\ procs[p].kind = "reserve" /\ procs[p].pc = "r_session"
  /\ LET session == sessions[procs[p].session_id]
         verdict == ReserveSessionCheck(session, now)
     IN IF verdict # "ok"
        THEN procs' = Finish(p, verdict)
        ELSE procs' = [procs EXCEPT ![p].pc = "r_plans", ![p].seen_left = spots_left(session)]
  /\ UNCHANGED <<tick, sessions, bookings, student_plans, plan_purchases,
                 credit_transactions, nfail>>

\* .eq('student_id').eq('status','active').gte('end_date', today)
ActivePlansOf(m, today) ==
  {g \in DOMAIN student_plans : /\ student_plans[g].student_id = m
                                /\ student_plans[g].status = "active"
                                /\ student_plans[g].end_date >= today}

AvailablePlansAnyBalance(m, today) == ActivePlansOf(m, today)

\* studentPlans.find(plan => plan.is_unlimited || plan.remaining_credits > 0):
\* the rows come back in no stated order, any qualifying row can be first
AvailablePlans(m, today) ==
  {g \in ActivePlansOf(m, today) :
     student_plans[g].is_unlimited \/ student_plans[g].remaining_credits > 0}

ReservePlans(p) ==
  /\ procs[p].kind = "reserve" /\ procs[p].pc = "r_plans"
  /\ \/ /\ AvailablePlans(procs[p].student, DateOf(now)) = {}
        /\ procs' = Finish(p, "NoCreditsAvailable")
        /\ UNCHANGED nfail
     \/ /\ \E g \in AvailablePlans(procs[p].student, DateOf(now)) :
             procs' = [procs EXCEPT ![p].pc = "r_insert", ![p].plan_id = g,
                                    ![p].seen_credits = student_plans[g].remaining_credits]
        /\ UNCHANGED nfail
     \/ /\ Fail
        /\ procs' = Finish(p, "DatabaseError")
  /\ UNCHANGED <<tick, sessions, bookings, student_plans, plan_purchases,
                 credit_transactions>>

ReserveInsert(p) ==
  /\ procs[p].kind = "reserve" /\ procs[p].pc = "r_insert"
  /\ \/ /\ InsertBooking(procs[p].student, procs[p].session_id, procs[p].plan_id)
        /\ procs' = [procs EXCEPT ![p].pc = "r_debit", ![p].booking_id = Len(bookings) + 1]
        /\ UNCHANGED nfail
     \/ /\ Fail
        /\ procs' = Finish(p, "DatabaseError")
        /\ UNCHANGED <<bookings, sessions>>
  /\ UNCHANGED <<tick, student_plans, plan_purchases, credit_transactions>>

\* the debit; a failed rpc is logged and the booking is still returned
ReserveDebit(p) ==
  /\ procs[p].kind = "reserve" /\ procs[p].pc = "r_debit"
  /\ \/ /\ create_credit_transaction(procs[p].plan_id, "debit", 1,
                                     procs[p].booking_id, "booking")
        /\ UNCHANGED nfail
     \/ /\ Fail
        /\ UNCHANGED <<student_plans, credit_transactions>>
  /\ procs' = Finish(p, "Created")
  /\ UNCHANGED <<tick, sessions, bookings, plan_purchases>>

(* ----------- PATCH /api/bookings/:bookingId/cancel (bookings.js) -------- *)
CancelCheckLateByOne(m, b, t) ==
  IF b \notin DOMAIN bookings \/ bookings[b].student_id # m THEN "NotFound"
  ELSE IF bookings[b].status # "active" THEN "NotCancellable"
  ELSE IF t > cancellationDeadline(sessions[bookings[b].session_id])
       THEN "CancellationClosed"
  ELSE "ok"

CancelCheckNoOwner(m, b, t) ==
  IF b \notin DOMAIN bookings THEN "NotFound"
  ELSE IF bookings[b].status # "active" THEN "NotCancellable"
  ELSE IF t >= cancellationDeadline(sessions[bookings[b].session_id])
       THEN "CancellationClosed"
  ELSE "ok"

CancelCheckNoStatus(m, b, t) ==
  IF b \notin DOMAIN bookings \/ bookings[b].student_id # m THEN "NotFound"
  ELSE IF t >= cancellationDeadline(sessions[bookings[b].session_id])
       THEN "CancellationClosed"
  ELSE "ok"

CancelCheck(m, b, t) ==
  IF b \notin DOMAIN bookings \/ bookings[b].student_id # m THEN "NotFound"
  ELSE IF bookings[b].status # "active" THEN "NotCancellable"
  ELSE IF t >= cancellationDeadline(sessions[bookings[b].session_id])
       THEN "CancellationClosed"
  ELSE "ok"

\* booking lookup by id and student, status check, cancellation deadline check
CancelStart(p, m, b) ==
  /\ CanStart(p)
  /\ LET r == [IdleProc EXCEPT !.kind = "cancel", !.student = m, !.booking_id = b]
         verdict == CancelCheck(m, b, now)
     IN IF verdict # "ok"
        THEN procs' = Accept(p, [r EXCEPT !.pc = "done", !.result = verdict])
        ELSE procs' = Accept(p, [r EXCEPT !.pc = "c_update",
                                          !.plan_id = bookings[b].student_plan_id,
                                          !.session_id = bookings[b].session_id])
  /\ UNCHANGED <<tick, sessions, bookings, student_plans, plan_purchases,
                 credit_transactions, nfail>>

CancelUpdate(p) ==
  /\ procs[p].kind = "cancel" /\ procs[p].pc = "c_update"
  /\ \/ /\ UpdateBookingCancelled(procs[p].booking_id, "Cancelled by user", "keep")
        /\ procs' = Goto(p, "c_credit")
        /\ UNCHANGED nfail
     \/ /\ Fail
        /\ procs' = Finish(p, "DatabaseError")
        /\ UNCHANGED <<bookings, sessions>>
  /\ UNCHANGED <<tick, student_plans, plan_purchases, credit_transactions>>

\* the refund; a failed rpc is logged and the cancellation is still returned
CancelCredit(p) ==
  /\ procs[p].kind = "cancel" /\ procs[p].pc = "c_credit"
  /\ \/ /\ create_credit_transaction(procs[p].plan_id, "credit", 1,
                                     procs[p].booking_id, "cancellation")
        /\ UNCHANGED nfail
     \/ /\ Fail
        /\ UNCHANGED <<student_plans, credit_transactions>>
  /\ procs' = Finish(p, "Cancelled")
  /\ UNCHANGED <<tick, sessions, bookings, plan_purchases>>

(* ------------- ApiService.bookSession (extension services/api) --------- *)
\* canBookSession: the session row is read first
BookStart(p, m, s, g) ==
  /\ CanStart(p)
  /\ procs' = Accept(p, [IdleProc EXCEPT !.kind = "book", !.pc = "a_plan",
                                         !.student = m, !.session_id = s, !.plan_id = g,
                                         !.start_left = spots_left(sessions[s]),
                                         !.seen_left = spots_left(sessions[s])])
  /\ UNCHANGED <<tick, sessions, bookings, student_plans, plan_purchases,
                 credit_transactions, nfail>>

\* canBookSession: the checks made once the student plan row is read; left is
\* the spots_left of the session row read before it
CanBookCheck(plan, left, session, t) ==
  IF plan.status # "active" \/ plan.end_date < DateOf(t) THEN "PlanNotActive"
  ELSE IF ~plan.is_unlimited /\ plan.remaining_credits < 1 THEN "InsufficientCredits"
  ELSE IF left <= 0 THEN "SessionFull"
  ELSE IF t >= cutoffTime(session) THEN "BookingClosed"
  ELSE "ok"

BookPlan(p) ==
  /\ procs[p].kind = "book" /\ procs[p].pc = "a_plan"
  /\ LET verdict == CanBookCheck(student_plans[procs[p].plan_id], procs[p].seen_left,
                                 sessions[procs[p].session_id], now)
     IN IF verdict # "ok"
        THEN procs' = Finish(p, verdict)
        ELSE procs' = [procs EXCEPT ![p].pc = "a_existing",
                         ![p].seen_credits = student_plans[procs[p].plan_id].remaining_credits]
  /\ UNCHANGED <<tick, sessions, bookings, student_plans, plan_purchases,
                 credit_transactions, nfail>>

\* canBookSession: already-booked check.  The Promise.all re-read that follows in
\* bookSession reads only columns no handler writes (session_date, session_time,
\* is_unlimited) and is folded into this step.
BookExisting(p) ==
  /\ procs[p].kind = "book" /\ procs[p].pc = "a_existing"
  /\ IF single(ActiveBookingIds(bookings, procs[p].student, procs[p].session_id)) # {}
     THEN procs' = Finish(p, "AlreadyBooked")
     ELSE procs' = Goto(p, "a_insert")
  /\ UNCHANGED <<tick, sessions, bookings, student_plans, plan_purchases,
                 credit_transactions, nfail>>

BookInsert(p) ==
  /\ procs[p].kind = "book" /\ procs[p].pc = "a_insert"
  /\ \/ /\ InsertBooking(procs[p].student, procs[p].session_id, procs[p].plan_id)
        /\ procs' = IF student_plans[procs[p].plan_id].is_unlimited
                    THEN [procs EXCEPT ![p].pc = "done", ![p].result = "Created",
                                       ![p].booking_id = Len(bookings) + 1]
                    ELSE [procs EXCEPT ![p].pc = "a_debit",
                                       ![p].booking_id = Len(bookings) + 1]
        /\ UNCHANGED nfail
     \/ /\ Fail
        /\ procs' = Finish(p, "DatabaseError")
        /\ UNCHANGED <<bookings, sessions>>
  /\ UNCHANGED <<tick, student_plans, plan_purchases, credit_transactions>>

\* "Deduct credit if not unlimited"; the rpc's error is not looked at
BookDebit(p) ==
  /\ procs[p].kind = "book" /\ procs[p].pc = "a_debit"
  /\ \/ /\ create_credit_transaction(procs[p].plan_id, "debit", 1,
                                     procs[p].booking_id, "booking")
        /\ UNCHANGED nfail
     \/ /\ Fail
        /\ UNCHANGED <<student_plans, credit_transactions>>
  /\ procs' = Finish(p, "Created")
  /\ UNCHANGED <<tick, sessions, bookings, plan_purchases>>

(* ------------ ApiService.cancelBooking (extension services/api) -------- *)
\* canCancelBooking, and the re-read of the booking with its session and plan
\* (student_plan_id, is_unlimited: columns no handler writes)
ApiCancelStart(p, m, b) ==
  /\ CanStart(p)
  /\ LET r == [IdleProc EXCEPT !.kind = "apicancel", !.student = m, !.booking_id = b]
         verdict == CancelCheck(m, b, now)
     IN IF verdict # "ok"
        THEN procs' = Accept(p, [r EXCEPT !.pc = "done", !.result = verdict])
        ELSE procs' = Accept(p, [r EXCEPT !.pc = "k_update",
                                          !.plan_id = bookings[b].student_plan_id,
                                          !.session_id = bookings[b].session_id])
  /\ UNCHANGED <<tick, sessions, bookings, student_plans, plan_purchases,
                 credit_transactions, nfail>>

ApiCancelUpdate(p) ==
  /\ procs[p].kind = "apicancel" /\ procs[p].pc = "k_update"
  /\ \/ /\ UpdateBookingCancelled(procs[p].booking_id, "Cancelled by user", "keep")
        /\ procs' = IF student_plans[procs[p].plan_id].is_unlimited
                    THEN Finish(p, "Cancelled")
                    ELSE Goto(p, "k_credit")
        /\ UNCHANGED nfail
     \/ /\ Fail
        /\ procs' = Finish(p, "DatabaseError")
        /\ UNCHANGED <<bookings, sessions>>
  /\ UNCHANGED <<tick, student_plans, plan_purchases, credit_transactions>>

\* "Refund credit if not unlimited"; the rpc's error is not looked at
ApiCancelCredit(p) ==
  /\ procs[p].kind = "apicancel" /\ procs[p].pc = "k_credit"
  /\ \/ /\ create_credit_transaction(procs[p].plan_id, "credit", 1,
                                     procs[p].booking_id, "cancellation")
        /\ UNCHANGED nfail
     \/ /\ Fail
        /\ UNCHANGED <<student_plans, credit_transactions>>
  /\ procs' = Finish(p, "Cancelled")
  /\ UNCHANGED <<tick, sessions, bookings, plan_purchases>>

(* ---- POST /api/webhooks/orders/cancelled (routes/sessions.js 552-616) --- *)
Orders == {plan_purchases[i].shopify_order_id : i \in DOMAIN plan_purchases}

\* .from('plan_purchases').select('*, student_plans(*)').eq('shopify_order_id', o):
\* the grants of the order with the remaining_credits read at that moment
RECURSIVE PlansOfOrder(_, _)
PlansOfOrder(o, g) ==
  IF g > Len(student_plans) THEN <<>>
  ELSE IF plan_purchases[student_plans[g].purchase_id].shopify_order_id = o
       THEN <<[plan |-> g, purchase |-> student_plans[g].purchase_id,
               remaining_credits |-> student_plans[g].remaining_credits]>>
            \o PlansOfOrder(o, g + 1)
       ELSE PlansOfOrder(o, g + 1)

ReversalStart(p, o) ==
  /\ CanStart(p)
  /\ LET r == [IdleProc EXCEPT !.kind = "reversal", !.order_id = o]
         found == PlansOfOrder(o, 1)
     IN IF found = <<>>
        THEN procs' = Accept(p, [r EXCEPT !.pc = "done", !.result = "Processed"])
        ELSE procs' = Accept(p, [r EXCEPT !.pc = "o_mark", !.pending = found])
  /\ UNCHANGED <<tick, sessions, bookings, student_plans, plan_purchases,
                 credit_transactions, nfail>>

\* student_plans.update({status: 'cancelled'}); its error is not looked at
ReversalMark(p) ==
  /\ procs[p].kind = "reversal" /\ procs[p].pc = "o_mark"
  /\ \/ /\ student_plans' = [student_plans EXCEPT
                               ![Head(procs[p].pending).plan].status = "cancelled"]
        /\ UNCHANGED nfail
     \/ /\ Fail
        /\ UNCHANGED student_plans
  /\ procs' = Goto(p, "o_refund")
  /\ UNCHANGED <<tick, sessions, bookings, plan_purchases, credit_transactions>>

\* the refund transaction: p_amount is the remaining_credits read with the order
ReversalRefund(p) ==
  /\ procs[p].kind = "reversal" /\ procs[p].pc = "o_refund"
  /\ \/ /\ create_credit_transaction(Head(procs[p].pending).plan, "credit",
                                     Head(procs[p].pending).remaining_credits,
                                     Head(procs[p].pending).purchase, "refund")
        /\ UNCHANGED nfail
     \/ /\ Fail
        /\ UNCHANGED <<student_plans, credit_transactions>>
  /\ procs' = Goto(p, "o_select")
  /\ UNCHANGED <<tick, sessions, bookings, plan_purchases>>

\* after the last booking of a grant: the next grant of the order, or the response
ReversalAdvance(p, left) ==
  IF left # {} THEN [procs EXCEPT ![p].pc = "o_cancel", ![p].todo = left]
  ELSE IF Len(procs[p].pending) > 1
       THEN [procs EXCEPT ![p].pc = "o_mark", ![p].todo = {},
                          ![p].pending = Tail(@)]
  ELSE [procs EXCEPT ![p].pc = "done", ![p].result = "Processed", ![p].todo = {}]

\* the active bookings charged to the grant; a failed query leaves
\* activeBookings null and the loop over it throws (500)
ReversalSelect(p) ==
  /\ procs[p].kind = "reversal" /\ procs[p].pc = "o_select"
  /\ \/ /\ procs' = ReversalAdvance(p,
             {b \in DOMAIN bookings :
                /\ bookings[b].student_plan_id = Head(procs[p].pending).plan
                /\ bookings[b].status = "active"})
        /\ UNCHANGED nfail
     \/ /\ Fail
        /\ procs' = Finish(p, "ServerError")
  /\ UNCHANGED <<tick, sessions, bookings, student_plans, plan_purchases,
                 credit_transactions>>

\* bookings.update({status: 'cancelled', ..., credit_refunded: true}).eq('id', b);
\* its error is not looked at
ReversalCancel(p) ==
  /\ procs[p].kind = "reversal" /\ procs[p].pc = "o_cancel"
  /\ \E b \in procs[p].todo :
       /\ \/ /\ UpdateBookingCancelled(b, "Order refunded", "true")
             /\ UNCHANGED nfail
          \/ /\ Fail
             /\ UNCHANGED <<bookings, sessions>>
       /\ procs' = ReversalAdvance(p, procs[p].todo \ {b})
  /\ UNCHANGED <<tick, student_plans, plan_purchases, credit_transactions>>

(* ------- POST /api/webhooks/orders (routes/sessions.js 459-549) ---------- *)
\* the line item of order o as Shopify delivers it (again): the one its first
\* plan_purchases row was created from
LineItemOf(o) ==
  plan_purchases[CHOOSE i \in DOMAIN plan_purchases :
                   /\ plan_purchases[i].shopify_order_id = o
                   /\ \A j \in 1..(i - 1) : plan_purchases[j].shopify_order_id # o]

\* findOrCreateUser, the student lookup and findPlanByShopifyId read rows no
\* handler of the model writes; the handler never looks for an earlier
\* purchase of the order
OrderStart(p, o) ==
  /\ CanStart(p)
  /\ procs' = Accept(p, [IdleProc EXCEPT !.kind = "order", !.pc = "w_purchase",
                                         !.order_id = o,
                                         !.student = LineItemOf(o).student_id])
  /\ UNCHANGED <<tick, sessions, bookings, student_plans, plan_purchases,
                 credit_transactions, nfail>>

\* plan_purchases insert; on purchaseError the line item is skipped (continue)
OrderPurchase(p) ==
  /\ procs[p].kind = "order" /\ procs[p].pc = "w_purchase"
  /\ \/ /\ plan_purchases' = Append(plan_purchases, LineItemOf(procs[p].order_id))
        /\ procs' = [procs EXCEPT ![p].pc = "w_plan",
                                   ![p].pending = <<[purchase |-> Len(plan_purchases) + 1]>>]
        /\ UNCHANGED nfail
     \/ /\ Fail
        /\ procs' = Finish(p, "Processed")
        /\ UNCHANGED plan_purchases
  /\ UNCHANGED <<tick, sessions, bookings, student_plans, credit_transactions>>

\* createStudentPlan(purchase, student, plan); its throw is caught and logged
OrderPlan(p) ==
  /\ procs[p].kind = "order" /\ procs[p].pc = "w_plan"
  /\ LET id == Head(procs[p].pending).purchase
         purchase == plan_purchases[id]
     IN \/ /\ student_plans' = Append(student_plans,
                  createStudentPlan(purchase, id, PlanCatalog[purchase.plan_id], now))
           /\ UNCHANGED nfail
        \/ /\ Fail
           /\ UNCHANGED student_plans
  /\ procs' = Finish(p, "Processed")
  /\ UNCHANGED <<tick, sessions, bookings, plan_purchases, credit_transactions>>

(* ------- POST /api/webhooks/ (routes/sessions.js 684-709, main router) --- *)
\* the X-Shopify-Topic values delivered in a run
Topics == {"orders/paid", "orders/cancelled", "app/uninstalled"}

\* switch (topic): the path the case hands the request to, "" for default
TopicRoute(topic) ==
  IF topic \in {"customers/create", "customers/update"} THEN "/customers"
  ELSE IF topic \in {"orders/create", "orders/paid"} THEN "/orders"
  ELSE IF topic \in {"orders/cancelled", "orders/refund"} THEN "/orders/cancelled"
  ELSE IF topic \in {"products/create", "products/update"} THEN "/products"
  ELSE ""

\* what `return router.post(path, req, res)` does to the request: router.post
\* registers a route and throws on a handler that is not a function, so the
\* async handler's promise rejects and the route's own handler never runs;
\* the rejection is left unhandled (no response) or reaches the error
\* middleware (500), depending on the Express major version installed
DispatchOutcomes(path) ==
  IF path = "" THEN {"NotHandled"} ELSE {"NoResponse", "ServerError"}

WebhookRoute(p, topic) ==
  /\ CanStart(p)
  /\ \E res \in DispatchOutcomes(TopicRoute(topic)) :
       procs' = Accept(p, [IdleProc EXCEPT !.kind = "webhook", !.pc = "done",
                                           !.topic = topic, !.result = res])
  /\ UNCHANGED <<tick, sessions, bookings, student_plans, plan_purchases,
                 credit_transactions, nfail>>

(* ------------------------------- clock --------------------------------- *)
Tick ==
  /\ tick < Len(Clock)
  /\ tick' = tick + 1
  /\ UNCHANGED <<sessions, bookings, student_plans, plan_purchases,
                 credit_transactions, procs, nfail>>

Next ==
  \/ Tick
  \/ \E p \in Procs, m \in Students, s \in Sessions : ReserveStart(p, m, s)
  \/ \E p \in Procs : ReserveSession(p)
  \/ \E p \in Procs : ReservePlans(p)
  \/ \E p \in Procs : ReserveInsert(p)
  \/ \E p \in Procs : ReserveDebit(p)
  \/ \E p \in Procs, m \in Students, b \in 1..(Len(bookings) + 1) : CancelStart(p, m, b)
  \/ \E p \in Procs : CancelUpdate(p)
  \/ \E p \in Procs : CancelCredit(p)
  \/ \E p \in Procs, m \in Students, s \in Sessions, g \in DOMAIN student_plans :
       BookStart(p, m, s, g)
  \/ \E p \in Procs : BookPlan(p)
  \/ \E p \in Procs : BookExisting(p)
  \/ \E p \in Procs : BookInsert(p)
  \/ \E p \in Procs : BookDebit(p)
  \/ \E p \in Procs, m \in Students, b \in 1..(Len(bookings) + 1) : ApiCancelStart(p, m, b)
  \/ \E p \in Procs : ApiCancelUpdate(p)
  \/ \E p \in Procs : ApiCancelCredit(p)
  \/ \E p \in Procs, o \in Orders : ReversalStart(p, o)
  \/ \E p \in Procs : ReversalMark(p)
  \/ \E p \in Procs : ReversalRefund(p)
  \/ \E p \in Procs : ReversalSelect(p)
  \/ \E p \in Procs : ReversalCancel(p)
  \/ \E p \in Procs, topic \in Topics : WebhookRoute(p, topic)
  \/ \E p \in Procs, o \in Orders : OrderStart(p, o)
  \/ \E p \in Procs : OrderPurchase(p)
  \/ \E p \in Procs : OrderPlan(p)

Spec == Init /\ [][Next]_vars

(* ============================== claims ================================= *)
ActiveOn(s) == {b \in DOMAIN bookings : bookings[b].session_id = s
                                        /\ bookings[b].status = "active"}

Done(p) == procs[p].pc = "done"
ReserveKinds == {"reserve", "book"}
CancelKinds == {"cancel", "apicancel"}

RECURSIVE LedgerSum(_, _, _)
\* sum of the amounts of grant g's ledger entries of one type
LedgerSum(ledger, g, type) ==
  IF ledger = <<>> THEN 0
  ELSE (IF Head(ledger).student_plan_id = g /\ Head(ledger).transaction_type = type
        THEN Head(ledger).amount ELSE 0) + LedgerSum(Tail(ledger), g, type)

EntriesFor(b, type, reftype) ==
  {i \in DOMAIN credit_transactions :
     /\ credit_transactions[i].reference_id = b
     /\ credit_transactions[i].reference_type = reftype
     /\ credit_transactions[i].transaction_type = type}

\* C1: on every session the number of active bookings is at most the capacity.
C1_ActiveWithinCapacity ==
  \A s \in Sessions : Cardinality(ActiveOn(s)) <= sessions[s].capacity

\* C2: two POST /bookings requests by different members, in flight together
\* against a scheduled session that had one spot left when each arrived, and
\* neither stopped by another guard or a storage failure: one is created and
\* the other gets "Session full".
C2_OneWinnerOneFull ==
  \A p, q \in Procs :
    ( /\ p # q
      /\ Done(p) /\ Done(q)
      /\ procs[p].kind = "reserve" /\ procs[q].kind = "reserve"
      /\ procs[p].session_id = procs[q].session_id
      /\ procs[p].student # procs[q].student
      /\ q \in procs[p].overlap
      /\ procs[p].start_left = 1 /\ procs[q].start_left = 1
      /\ {procs[p].result, procs[q].result} \subseteq {"Created", "SessionFull"} )
    => {procs[p].result, procs[q].result} = {"Created", "SessionFull"}

C4_BalanceIsLedgerProjection ==
  \A g \in DOMAIN student_plans :
    ~student_plans[g].is_unlimited =>
      student_plans[g].remaining_credits =
        student_plans[g].initial_credits
          + LedgerSum(credit_transactions, g, "credit")
          - LedgerSum(credit_transactions, g, "debit")

\* C4 witness: a reserve was answered although its ledger append failed, and
\* a grant reversal appended its refund entry to a grant with credits left.
C4_Witness ==
  /\ \E p \in Procs :
       /\ Done(p) /\ procs[p].kind = "reserve" /\ procs[p].result = "Created"
       /\ EntriesFor(procs[p].booking_id, "debit", "booking") = {}
  /\ \E i \in DOMAIN credit_transactions :
       /\ credit_transactions[i].reference_type = "refund"
       /\ credit_transactions[i].amount > 0
       /\ ~student_plans[credit_transactions[i].student_plan_id].is_unlimited

\* C5: every grant that is not unlimited has remaining_credits >= 0.
C5_BalanceNeverNegative ==
  \A g \in DOMAIN student_plans :
    ~student_plans[g].is_unlimited => student_plans[g].remaining_credits >= 0

\* C6: of two reserve requests of one member for two different sessions, in
\* flight together and both charging the same grant after reading
\* remaining_credits = 1 on it, at most one is created.
C6_OneCreditOneBooking ==
  \A p, q \in Procs :
    ( /\ p # q
      /\ Done(p) /\ Done(q)
      /\ procs[p].kind \in ReserveKinds /\ procs[q].kind \in ReserveKinds
      /\ procs[p].student = procs[q].student
      /\ procs[p].session_id # procs[q].session_id
      /\ q \in procs[p].overlap
      /\ procs[p].plan_id = procs[q].plan_id
      /\ procs[p].plan_id \in DOMAIN student_plans
      /\ ~student_plans[procs[p].plan_id].is_unlimited
      /\ procs[p].seen_credits = 1 /\ procs[q].seen_credits = 1 )
    => ~(procs[p].result = "Created" /\ procs[q].result = "Created")

\* C7: a member has at most one active booking on a session.
C7_OneActivePerMemberSession ==
  \A m \in Students, s \in Sessions : Cardinality(ActiveBookingIds(bookings, m, s)) <= 1

\* C8: once the reserve that inserted it has answered, a booking charged to a
\* grant that is not unlimited has exactly one debit ledger entry referencing
\* it (the commit is all or nothing).
C8_BookingHasItsDebit ==
  \A b \in DOMAIN bookings :
    ( /\ ~student_plans[bookings[b].student_plan_id].is_unlimited
      /\ \A p \in Procs : ~(InFlight(p) /\ procs[p].kind \in ReserveKinds
                            /\ procs[p].booking_id = b) )
    => Cardinality(EntriesFor(b, "debit", "booking")) = 1

\* C9: a member cancel that passed the cancellation deadline check leaves the
\* booking cancelled with credit_refunded = true and one ledger credit of 1
\* for it on the charged grant.
C9_CancelRefunds ==
  \A p \in Procs :
    (Done(p) /\ procs[p].kind \in CancelKinds /\ procs[p].result = "Cancelled")
    => /\ bookings[procs[p].booking_id].status = "cancelled"
       /\ bookings[procs[p].booking_id].credit_refunded
       /\ \E i \in EntriesFor(procs[p].booking_id, "credit", "cancellation") :
            /\ credit_transactions[i].student_plan_id =
                 bookings[procs[p].booking_id].student_plan_id
            /\ credit_transactions[i].balance_after =
                 credit_transactions[i].balance_before + 1

\* A member cancel of the member's own active booking whose deadline check
\* runs at or after session start minus cancellation_cutoff_hours.
LateCancel(p) ==
  /\ procs[p].pc = "idle"
  /\ procs'[p].kind \in CancelKinds
  /\ procs'[p].booking_id \in DOMAIN bookings
  /\ bookings[procs'[p].booking_id].student_id = procs'[p].student
  /\ bookings[procs'[p].booking_id].status = "active"
  /\ now >= cancellationDeadline(sessions[bookings[procs'[p].booking_id].session_id])

LateReserveCheck(p) ==
  /\ procs[p].pc \in {"r_session", "a_plan"}
  /\ procs'[p].pc # procs[p].pc
  /\ now >= cutoffTime(sessions[procs[p].session_id])

\* The arrival of a reserve request at or past the booking cutoff: the route
\* looks for an existing active booking first.
LateReserveArrival(p) ==
  /\ procs[p].pc = "idle"
  /\ procs'[p].kind \in ReserveKinds
  /\ now >= cutoffTime(sessions[procs'[p].session_id])

GrantsOfOrder(o) ==
  {g \in DOMAIN student_plans :
     plan_purchases[student_plans[g].purchase_id].shopify_order_id = o}

\* the ledger entries a grant reversal appended for grant g
RefundEntries(g) ==
  {i \in DOMAIN credit_transactions :
     /\ credit_transactions[i].student_plan_id = g
     /\ credit_transactions[i].reference_type = "refund"
     /\ credit_transactions[i].transaction_type = "credit"}

\* C12: once the order-cancelled webhook has answered, every grant of the
\* order that is not unlimited has status cancelled, the ledger holds a credit
\* entry referencing the reversal whose amount is the balance the grant had
\* before it, and the grant's remaining_credits is 0.
C12_ReversalZeroesGrant ==
  \A p \in Procs :
    (Done(p) /\ procs[p].kind = "reversal" /\ procs[p].result = "Processed")
    => \A g \in GrantsOfOrder(procs[p].order_id) :
         ~student_plans[g].is_unlimited =>
           /\ student_plans[g].status = "cancelled"
           /\ \E i \in RefundEntries(g) :
                /\ credit_transactions[i].amount = credit_transactions[i].balance_before
                /\ credit_transactions[i].reference_id = student_plans[g].purchase_id
           /\ student_plans[g].remaining_credits = 0

\* C13: each booking the grant reversal cancels (an active booking charged to
\* the reversed grant) becomes cancelled with credit_refunded = false, gets no
\* ledger entry of its own, and its session's spots_taken goes down by 1.
C13_CascadeCancelsWithoutRefund ==
  [][\A p \in Procs :
       (procs[p].pc = "o_cancel" /\ procs'[p] # procs[p]) =>
         \A b \in procs[p].todo \ procs'[p].todo :
           bookings[b].status = "active" =>
             /\ bookings'[b].status = "cancelled"
             /\ ~bookings'[b].credit_refunded
             /\ credit_transactions' = credit_transactions
             /\ sessions'[bookings[b].session_id].spots_taken =
                  sessions[bookings[b].session_id].spots_taken - 1]_vars

\* A member cancel arriving for a booking of that member that is already
\* cancelled.
RepeatedCancel(p) ==
  /\ procs[p].pc = "idle"
  /\ procs'[p].kind \in CancelKinds
  /\ procs'[p].booking_id \in DOMAIN bookings
  /\ bookings[procs'[p].booking_id].student_id = procs'[p].student
  /\ bookings[procs'[p].booking_id].status = "cancelled"

\* C14: a cancel request on a booking that is already cancelled is answered
\* NotCancellable and changes no booking, session, grant or ledger state, so
\* a cancel after a cancel leaves what the first cancel left.
C14_CancelOfCancelledIsNoOp ==
  [][\A p \in Procs :
       RepeatedCancel(p) =>
         /\ procs'[p].pc = "done"
         /\ procs'[p].result = "NotCancellable"
         /\ UNCHANGED <<bookings, sessions, student_plans, credit_transactions>>]_vars

\* C14 witness: a booking was cancelled by one request and a later cancel of
\* the same booking was answered NotCancellable.
C14_Witness ==
  \E p, q \in Procs :
    /\ Done(p) /\ Done(q)
    /\ procs[p].kind \in CancelKinds /\ procs[q].kind \in CancelKinds
    /\ procs[p].booking_id = procs[q].booking_id
    /\ procs[p].result = "Cancelled" /\ procs[q].result = "NotCancellable"
    /\ bookings[procs[p].booking_id].status = "cancelled"
    /\ Cardinality(EntriesFor(procs[p].booking_id, "credit", "cancellation")) = 1

\* C15: a cancelled booking is final: no step changes its status, cancelled_at,
\* cancellation_reason or credit_refunded, and rows are never removed.
C15_CancelledIsFinal ==
  [][/\ Len(bookings') >= Len(bookings)
     /\ \A b \in DOMAIN bookings :
          bookings[b].status = "cancelled" => bookings'[b] = bookings[b]]_vars

\* The step in which POST /api/bookings picks the grant to charge.
PicksPlan(p) ==
  /\ procs[p].kind = "reserve"
  /\ procs[p].pc = "r_plans"
  /\ procs'[p].pc = "r_insert"

\* the member's grants that are eligible now (spec: findEligiblePlan)
Eligible(g, t) ==
  /\ student_plans[g].status = "active"
  /\ student_plans[g].end_date >= DateOf(t)
  /\ (student_plans[g].is_unlimited \/ student_plans[g].remaining_credits >= 1)

EligibleGrants(m, t) ==
  {g \in DOMAIN student_plans : student_plans[g].student_id = m /\ Eligible(g, t)}

\* C16 (as stated): among several eligible grants reserve charges the one
\* with the earliest end_date, and among equal end_dates the one created first.
C16_ChargesEarliestEnding ==
  [][\A p \in Procs :
       PicksPlan(p) =>
         \A h \in EligibleGrants(procs[p].student, now) :
           LET g == procs'[p].plan_id
           IN \/ student_plans[g].end_date < student_plans[h].end_date
              \/ (student_plans[g].end_date = student_plans[h].end_date /\ g <= h)]_vars

\* C16 (amended): among several eligible grants POST /api/bookings charges one
\* of the member's eligible grants (the first eligible row of an unordered
\* query), not necessarily the one ending first.
C16_ChargesSomeEligibleGrant ==
  [][\A p \in Procs :
       PicksPlan(p) => procs'[p].plan_id \in EligibleGrants(procs[p].student, now)]_vars

\* C16 witness: a reserve was created on a grant while another eligible grant
\* of the same member ends earlier.
C16_Witness ==
  \E p \in Procs :
    /\ Done(p) /\ procs[p].kind = "reserve" /\ procs[p].result = "Created"
    /\ \E h \in EligibleGrants(procs[p].student, now) :
         /\ h # procs[p].plan_id
         /\ student_plans[h].end_date < student_plans[procs[p].plan_id].end_date

\* C17: a reserve debits a grant only if the grant is eligible at that moment
\* (status active, end_date on or after today, unlimited or at least one
\* credit left); a booking is inserted only for a member who has an eligible
\* grant, and a reserve that finds none is answered NoCreditsAvailable.
C17_ChargesOnlyEligible ==
  [][\A p \in Procs :
       /\ ( /\ procs[p].pc \in {"r_debit", "a_debit"}
            /\ Len(credit_transactions') > Len(credit_transactions) )
          => Eligible(procs[p].plan_id, now)
       /\ ( /\ procs[p].pc \in {"r_insert", "a_insert"}
            /\ Len(bookings') > Len(bookings) )
          => EligibleGrants(procs[p].student, now) # {}
       /\ ( /\ procs[p].pc = "r_plans" /\ procs'[p].pc # "r_plans"
            /\ nfail' = nfail
            /\ EligibleGrants(procs[p].student, now) = {} )
          => /\ procs'[p].pc = "done"
             /\ procs'[p].result = "NoCreditsAvailable"]_vars

\* C18: a reserve, or a refunded cancel, charged to an unlimited grant has
\* appended a ledger entry referencing the booking, and an unlimited grant's
\* remaining_credits never changes.
C18_UnlimitedAuditedNoEffect ==
  /\ \A g \in DOMAIN student_plans :
       student_plans[g].is_unlimited =>
         student_plans[g].remaining_credits = student_plans[g].initial_credits
  /\ \A p \in Procs :
       ( /\ Done(p) /\ procs[p].kind \in ReserveKinds /\ procs[p].result = "Created"
         /\ student_plans[procs[p].plan_id].is_unlimited )
       => \E i \in EntriesFor(procs[p].booking_id, "debit", "booking") :
            credit_transactions[i].balance_after = credit_transactions[i].balance_before
  /\ \A p \in Procs :
       ( /\ Done(p) /\ procs[p].kind \in CancelKinds /\ procs[p].result = "Cancelled"
         /\ student_plans[procs[p].plan_id].is_unlimited )
       => \E i \in EntriesFor(procs[p].booking_id, "credit", "cancellation") :
            credit_transactions[i].balance_after = credit_transactions[i].balance_before

\* A member cancel arriving for a booking id that does not exist or whose
\* booking belongs to another member.
ForeignCancel(p) ==
  /\ procs[p].pc = "idle"
  /\ procs'[p].kind \in CancelKinds
  /\ \/ procs'[p].booking_id \notin DOMAIN bookings
     \/ bookings[procs'[p].booking_id].student_id # procs'[p].student

\* C19: a cancel request for a booking that does not exist or belongs to
\* another member is answered NotFound and changes no state; every cancel that
\* goes on to write is the booking owner's.
C19_ForeignCancelNotFound ==
  [][\A p \in Procs :
       /\ ForeignCancel(p) =>
            /\ procs'[p].pc = "done"
            /\ procs'[p].result = "NotFound"
            /\ UNCHANGED <<bookings, sessions, student_plans, credit_transactions>>
       /\ ( /\ procs[p].kind \in CancelKinds
            /\ procs[p].pc \in {"c_update", "c_credit", "k_update", "k_credit"} )
          => bookings[procs[p].booking_id].student_id = procs[p].student]_vars

\* C19 witness: a member's cancel of another member's active booking was
\* answered NotFound and the booking is still active with no refund entry.
C19_Witness ==
  \E p \in Procs :
    /\ Done(p) /\ procs[p].kind \in CancelKinds /\ procs[p].result = "NotFound"
    /\ procs[p].booking_id \in DOMAIN bookings
    /\ bookings[procs[p].booking_id].student_id # procs[p].student
    /\ bookings[procs[p].booking_id].status = "active"
    /\ EntriesFor(procs[p].booking_id, "credit", "cancellation") = {}

\* C20: a reserve that is answered Created on a grant that is not unlimited
\* has, at its insert, added one active booking linking the member, the
\* session and the charged grant and raised the session's spots_taken by 1,
\* and, at its debit, appended one debit entry of amount 1 referencing that
\* booking and lowered the grant's remaining_credits by 1.
C20_ReserveCommitsAllThree ==
  [][\A p \in Procs :
       LET g == procs[p].plan_id
           s == procs[p].session_id
       IN /\ ( /\ procs[p].pc \in {"r_insert", "a_insert"}
               /\ procs'[p].pc \in {"r_debit", "a_debit"} )
             => /\ bookings' = Append(bookings, BookingRow(procs[p].student, s, g))
                /\ procs'[p].booking_id = Len(bookings')
                /\ sessions'[s].spots_taken = sessions[s].spots_taken + 1
          /\ ( /\ procs[p].pc \in {"r_debit", "a_debit"}
               /\ procs'[p].pc = "done" /\ procs'[p].result = "Created"
               /\ ~student_plans[g].is_unlimited )
             => /\ Len(credit_transactions') = Len(credit_transactions) + 1
                /\ LET e == credit_transactions'[Len(credit_transactions')]
                   IN /\ e.transaction_type = "debit" /\ e.amount = 1
                      /\ e.student_plan_id = g
                      /\ e.reference_id = procs[p].booking_id
                      /\ e.reference_type = "booking"
                /\ student_plans'[g].remaining_credits =
                     student_plans[g].remaining_credits - 1]_vars

\* the answers of the reserve guard checks
GuardRejections ==
  {"AlreadyBooked", "SessionNotAvailable", "SessionFull", "BookingClosed",
   "NoCreditsAvailable", "PlanNotActive", "InsufficientCredits"}

\* The step in which a reserve handler checks capacity, on a session row that
\* shows no spot left.
FullSessionCheck(p) ==
  /\ procs[p].pc # procs'[p].pc
  /\ \/ /\ procs[p].pc = "r_session"
        /\ spots_left(sessions[procs[p].session_id]) <= 0
     \/ /\ procs[p].pc = "a_plan"
        /\ procs[p].seen_left <= 0

C22_HandledTopicProcessed ==
  \A p \in Procs :
    (Done(p) /\ procs[p].kind = "webhook" /\ TopicRoute(procs[p].topic) # "")
    => procs[p].result = "Processed"

\* the first guard of reserve that fails, in the order of the protocol
\* (SessionNotAvailable, AlreadyBooked, BookingClosed, SessionFull,
\* NoCreditsAvailable); grants: the grants the request may charge
FirstFailingGuard(m, s, grants, t) ==
  IF sessions[s].status # "scheduled" THEN "SessionNotAvailable"
  ELSE IF ActiveBookingIds(bookings, m, s) # {} THEN "AlreadyBooked"
  ELSE IF t >= cutoffTime(sessions[s]) THEN "BookingClosed"
  ELSE IF sessions[s].spots_taken >= sessions[s].capacity THEN "SessionFull"
  ELSE IF \A g \in grants : ~Eligible(g, t) THEN "NoCreditsAvailable"
  ELSE "ok"

\* the error kind of an answer (ApiService words its plan errors differently)
ErrorKind(result) ==
  IF result \in {"PlanNotActive", "InsufficientCredits"} THEN "NoCreditsAvailable"
  ELSE result

\* C23: a reserve rejected by a guard reports the first failing guard in the
\* order SessionNotAvailable, AlreadyBooked, BookingClosed, SessionFull,
\* NoCreditsAvailable, and a reserve on a session that is not scheduled is
\* answered SessionNotAvailable on the route and in ApiService alike.
C23_FirstFailingGuardReported ==
  [][\A p \in Procs :
       ( /\ procs[p].pc # "done" /\ procs'[p].pc = "done"
         /\ procs'[p].kind \in ReserveKinds
         /\ nfail' = nfail )
       => LET m == procs'[p].student
              s == procs'[p].session_id
              grants == IF procs'[p].kind = "reserve"
                        THEN {g \in DOMAIN student_plans : student_plans[g].student_id = m}
                        ELSE {procs'[p].plan_id}
          IN /\ procs'[p].result \in GuardRejections
                => ErrorKind(procs'[p].result) = FirstFailingGuard(m, s, grants, now)
             /\ sessions[s].status # "scheduled"
                => procs'[p].result = "SessionNotAvailable"]_vars

\* C24: whenever a booking has been cancelled by the grant reversal cascade,
\* its grant is already marked cancelled and the reversal's ledger credit for
\* the grant is already appended.
C24_GrantVoidedBeforeCascade ==
  \A b \in DOMAIN bookings :
    ( /\ bookings[b].status = "cancelled"
      /\ bookings[b].cancellation_reason = "Order refunded" )
    => /\ student_plans[bookings[b].student_plan_id].status = "cancelled"
       /\ RefundEntries(bookings[b].student_plan_id) # {}

\* C25: however cancel requests for one booking overlap, the ledger holds at
\* most one cancellation credit referencing the booking (the charged grant
\* gets back at most 1 credit for it).
C25_OneRefundPerBooking ==
  \A b \in DOMAIN bookings :
    Cardinality(EntriesFor(b, "credit", "cancellation")) <= 1

\* C26: once an order cancellation has been processed, no active booking is
\* charged to a grant of the order that it marked cancelled.
C26_NoActiveBookingOnReversedGrant ==
  \A p \in Procs :
    (Done(p) /\ procs[p].kind = "reversal" /\ procs[p].result = "Processed")
    => \A g \in GrantsOfOrder(procs[p].order_id) :
         student_plans[g].status = "cancelled"
         => \A b \in DOMAIN bookings :
              bookings[b].student_plan_id = g => bookings[b].status # "active"

\* C27: every booking is charged to a grant of the booking's own member.
C27_BookingChargesOwnGrant ==
  \A b \in DOMAIN bookings :
    student_plans[bookings[b].student_plan_id].student_id = bookings[b].student_id

\* the bookings charged to grant g that still hold their credit: active, or
\* cancelled with no cancellation credit in the ledger
ChargedBookings(g) ==
  {b \in DOMAIN bookings :
     /\ bookings[b].student_plan_id = g
     /\ \/ bookings[b].status = "active"
        \/ EntriesFor(b, "credit", "cancellation") = {}}

\* C28: after any sequence of reserve and cancel requests (none in flight),
\* every active grant that is not unlimited has used (initial_credits -
\* remaining_credits) exactly as many credits as it has bookings that are
\* active or were cancelled without a refund.
C28_UsedCreditsMatchBookings ==
  (\A p \in Procs : ~InFlight(p) /\ procs[p].kind \in ReserveKinds \cup CancelKinds \cup {"idle"})
  => \A g \in DOMAIN student_plans :
       (~student_plans[g].is_unlimited /\ student_plans[g].status = "active")
       => student_plans[g].initial_credits - student_plans[g].remaining_credits
            = Cardinality(ChargedBookings(g))

\* C29: for every cancelled booking whose cancel has finished, credit_refunded
\* is true exactly when the ledger holds a credit entry referencing the booking.
C29_RefundFlagMatchesLedger ==
  \A b \in DOMAIN bookings :
    ( /\ bookings[b].status = "cancelled"
      /\ \A p \in Procs : ~(InFlight(p) /\ procs[p].kind \in CancelKinds
                            /\ procs[p].booking_id = b) )
    => (bookings[b].credit_refunded <=> EntriesFor(b, "credit", "cancellation") # {})

\* C30: however often a confirmed order is delivered, it has exactly one
\* purchase record and exactly one grant (per plan line item), and every
\* grant was created with initial_credits equal to plan credits times quantity.
C30_OrderProcessedOnce ==
  /\ \A o \in Orders :
       /\ Cardinality({i \in DOMAIN plan_purchases :
                         plan_purchases[i].shopify_order_id = o}) = 1
       /\ Cardinality(GrantsOfOrder(o)) = 1
  /\ \A g \in DOMAIN student_plans :
       student_plans[g].initial_credits =
         PlanCatalog[student_plans[g].plan_id].credits
           * plan_purchases[student_plans[g].purchase_id].quantity

====
